---- MODULE Spec2Model ----
(***************************************************************************)
(* gitripper: download a GitHub repository snapshot, install it into a     *)
(* destination directory, strip embedded .git directories and create a     *)
(* fresh repository with one commit.                                        *)
(*                                                                         *)
(* The repository holds three variants of the driver:                      *)
(*   "main"            src/src/main.py                                     *)
(*   "src_gitripper"   src/src/gitripper.py                                *)
(*   "root_gitripper"  src/gitripper.py                                    *)
(* and a stand-alone URL parser, src/src/github_url_parser.py.             *)
(*                                                                         *)
(* Strings are TLA+ strings; a character is a string of length one.        *)
(* Optional[str] is modelled as a sequence: <<>> is None, <<s>> is s.      *)
(***************************************************************************)
EXTENDS Integers, Sequences, FiniteSets, TLC

VARIABLES
    variant,    \* which driver is running
    args,       \* the parsed command line (argparse namespace)
    pc,         \* position of main
    owner,      \* owner as bound by main
    repo,       \* repo as bound by main
    ref,        \* ref as bound by main (Optional[str])
    zip_path,   \* path returned by download_zip (Optional[str])
    dest_fs,    \* what the filesystem holds at the destination path
    dest_fs0,   \* what it held when the run started
    calls,      \* the calls main has made so far, in order
    outcome,    \* how the run stands: running / returned / exited / raised
    dest,       \* the destination path main computed
    git_cmds,   \* the git commands initialize_repo has issued, in order
    git_probe,  \* how `git --version` went in check_git_installed
    temp_live,  \* the temporary directories that exist
    temp_made,  \* the temporary directories created so far
    git_warnings, \* the .git directories remove_embedded_git warned about
    probe,      \* input of the stand-alone parser runs
    result      \* what the parser under test produced for probe

vars == <<variant, args, pc, owner, repo, ref, zip_path, dest_fs, dest_fs0,
          calls, outcome, dest, git_cmds, git_probe, temp_live, temp_made,
          git_warnings, probe, result>>

-----------------------------------------------------------------------------
(* Python values *)

None == <<>>

Some(s) == <<s>>

\* bool(x) of an Optional[str]: None and "" are falsy
Truthy(opt) == opt # None /\ opt[1] # ""

-----------------------------------------------------------------------------
(* str helpers *)

Ch(s, i) == SubSeq(s, i, i)

Drop(s, n) == SubSeq(s, n + 1, Len(s))

StartsWith(s, p) == Len(s) >= Len(p) /\ SubSeq(s, 1, Len(p)) = p

EndsWith(s, p) == Len(s) >= Len(p) /\ SubSeq(s, Len(s) - Len(p) + 1, Len(s)) = p

\* index of the first occurrence of character c in s, 0 when there is none
IndexOf(s, c) ==
    IF \E i \in 1..Len(s) : Ch(s, i) = c
    THEN CHOOSE i \in 1..Len(s) :
            Ch(s, i) = c /\ \A j \in 1..(i - 1) : Ch(s, j) # c
    ELSE 0

\* the characters str.strip() removes (those that occur in the inputs)
Whitespace == {" ", "\n", "\t"}

\* str.strip(): drop leading and trailing whitespace
strip(s) ==
    IF \A i \in 1..Len(s) : Ch(s, i) \in Whitespace
    THEN ""
    ELSE LET first == CHOOSE i \in 1..Len(s) :
                        /\ Ch(s, i) \notin Whitespace
                        /\ \A j \in 1..(i - 1) : Ch(s, j) \in Whitespace
             last == CHOOSE i \in 1..Len(s) :
                        /\ Ch(s, i) \notin Whitespace
                        /\ \A j \in (i + 1)..Len(s) : Ch(s, j) \in Whitespace
         IN SubSeq(s, first, last)

\* the suffix left in place
removesuffix_kept(s, suffix) == s

\* str.removesuffix(suffix)
removesuffix(s, suffix) ==
    IF EndsWith(s, suffix) THEN SubSeq(s, 1, Len(s) - Len(suffix)) ELSE s

-----------------------------------------------------------------------------
(* re.match of the three patterns *)

NoMatch == [ok |-> FALSE, g1 |-> "", g2 |-> ""]

Matched(a, b) == [ok |-> TRUE, g1 |-> a, g2 |-> b]

\* (/.*)?$ against a remainder that starts with "/": "." matches no newline
\* and "$" matches at the end or just before a final newline.
TailMatches(tail) ==
    \A k \in 2..Len(tail) : Ch(tail, k) = "\n" => k = Len(tail)

\* ([^/]+)/([^/]+) followed by "$", or by "(/.*)?$" when allowTail
MatchOwnerRepo(rest, allowTail) ==
    LET i == IndexOf(rest, "/") IN
    IF i <= 1 THEN NoMatch
    ELSE LET g1 == SubSeq(rest, 1, i - 1)
             r2 == Drop(rest, i)
             j  == IndexOf(r2, "/")
         IN IF j = 0
            THEN IF Len(r2) >= 1 THEN Matched(g1, r2) ELSE NoMatch
            ELSE IF j = 1 THEN NoMatch
            ELSE IF allowTail /\ TailMatches(Drop(r2, j - 1))
                 THEN Matched(g1, SubSeq(r2, 1, j - 1))
                 ELSE NoMatch

\* the pattern with the dots of the host left unescaped:
\* r"https?://github.com/([^/]+)/([^/]+)(/.*)?$"
MatchHttpsAnyDot(s) ==
    LET n == IF StartsWith(s, "https://github") THEN Len("https://github")
             ELSE IF StartsWith(s, "http://github") THEN Len("http://github")
             ELSE 0
    IN IF n > 0 /\ Len(s) > n /\ Ch(s, n + 1) # "\n"
               /\ StartsWith(Drop(s, n + 1), "com/")
       THEN MatchOwnerRepo(Drop(s, n + 1 + Len("com/")), TRUE)
       ELSE NoMatch

\* r"https?://github\.com/([^/]+)/([^/]+)(/.*)?$"
MatchHttps(s) ==
    IF StartsWith(s, "https://github.com/")
    THEN MatchOwnerRepo(Drop(s, Len("https://github.com/")), TRUE)
    ELSE IF StartsWith(s, "http://github.com/")
    THEN MatchOwnerRepo(Drop(s, Len("http://github.com/")), TRUE)
    ELSE NoMatch

\* r"git@github\.com:([^/]+)/([^/]+)$"
MatchScp(s) ==
    IF StartsWith(s, "git@github.com:")
    THEN MatchOwnerRepo(Drop(s, Len("git@github.com:")), FALSE)
    ELSE NoMatch

\* r"ssh://git@github\.com/([^/]+)/([^/]+)$"
MatchSsh(s) ==
    IF StartsWith(s, "ssh://git@github.com/")
    THEN MatchOwnerRepo(Drop(s, Len("ssh://git@github.com/")), FALSE)
    ELSE NoMatch

\* the first pattern of the list that matches, NoMatch when none does
FirstMatch(s) ==
    IF MatchHttps(s).ok THEN MatchHttps(s)
    ELSE IF MatchScp(s).ok THEN MatchScp(s)
    ELSE MatchSsh(s)

-----------------------------------------------------------------------------
(* parse_github_url, one definition per copy of it in the repository.      *)
(* A result is [exc, owner, repo]; exc = "none" when a pair is returned.   *)

Returned(a, b) == [exc |-> "none", owner |-> a, repo |-> b]

Raised(e) == [exc |-> e, owner |-> "", repo |-> ""]

\* src/src/github_url_parser.py
parse_github_url(url) ==
    LET m == FirstMatch(removesuffix(strip(url), ".git")) IN
    IF ~m.ok \/ m.g1 = "" \/ m.g2 = ""
    THEN Raised("ValueError")
    ELSE Returned(m.g1, m.g2)

\* src/src/main.py
parse_github_url_main(url) ==
    LET m == FirstMatch(removesuffix(strip(url), ".git")) IN
    IF m.ok THEN Returned(m.g1, m.g2) ELSE Raised("ValueError")

\* src/src/gitripper.py: ("", "") instead of an error
parse_github_url_src(url) ==
    LET m == FirstMatch(removesuffix(strip(url), ".git")) IN
    IF m.ok THEN Returned(m.g1, m.g2) ELSE Returned("", "")

\* src/gitripper.py
parse_github_url_root(url) ==
    LET original == strip(url)
        stripped == IF EndsWith(original, ".git")
                    THEN SubSeq(original, 1, Len(original) - 4)
                    ELSE original
        m == FirstMatch(stripped)
    IN IF m.ok THEN Returned(m.g1, m.g2)
       ELSE Raised("ValueError")

-----------------------------------------------------------------------------
(* Exceptions.  EnvironmentError is an alias of OSError; requests'         *)
(* RequestException derives from IOError, another alias of OSError.        *)

EnvironmentError == "OSError"

\* the direct base class of each exception class the program meets
BaseOf(e) ==
    CASE e = "FileNotFoundError"  -> "OSError"
      [] e = "NotADirectoryError" -> "OSError"
      [] e = "FileExistsError"    -> "OSError"
      [] e = "PermissionError"    -> "OSError"
      [] e = "RequestException"   -> "OSError"
      [] e = "OSError"            -> "Exception"
      [] e = "RuntimeError"       -> "Exception"
      [] e = "ValueError"         -> "Exception"
      [] e = "CalledProcessError" -> "Exception"
      [] e = "BadZipFile"         -> "Exception"
      [] OTHER                    -> "BaseException"

RECURSIVE IsInstance(_, _)
\* "except cls" catches e
IsInstance(e, cls) ==
    IF e = cls THEN TRUE
    ELSE IF e = "BaseException" THEN FALSE
    ELSE IsInstance(BaseOf(e), cls)

-----------------------------------------------------------------------------
(* Exit codes *)

ERR_INVALID_URL == 2
ERR_DEST_EXISTS == 3
ERR_CLEANUP_FAILED == 4
ERR_GIT_NOT_FOUND == 5
ERR_DOWNLOAD_FAILED == 6
ERR_EXTRACTION_FAILED == 7
ERR_INIT_FAILED == 8
ERR_INIT_OTHER == 9

\* exit status of the interpreter when an exception leaves main
UNCAUGHT_STATUS == 1

Variants == {"main", "src_gitripper", "root_gitripper"}

-----------------------------------------------------------------------------
(* The remote API and the functions that call it *)

HTTP_OK == 200
HTTP_MOVED == 301
HTTP_FOUND == 302
HTTP_NOT_FOUND == 404
HTTP_SERVER_ERROR == 500

GITHUB_API == "https://api.github.com"

\* A reply of requests.get: a status, or no reply at all (net = TRUE, get
\* raises RequestException).  branch is the default_branch field of the
\* metadata body, None when the body has no such field; text is the body
\* as r.text gives it; chunks is what r.iter_content yields.
Reply(st, br) ==
    [net |-> FALSE, status |-> st, branch |-> br, text |-> "",
     chunks |-> <<>>]

NetworkFailure ==
    [net |-> TRUE, status |-> 0, branch |-> None, text |-> "",
     chunks |-> <<>>]

MetadataReplies ==
    { Reply(HTTP_OK, Some("trunk")), Reply(HTTP_OK, None),
      Reply(HTTP_NOT_FOUND, None), Reply(HTTP_SERVER_ERROR, None),
      NetworkFailure }

ArchiveReplies ==
    { Reply(st, None) : st \in {HTTP_OK, HTTP_MOVED, HTTP_FOUND,
                                HTTP_NOT_FOUND, HTTP_SERVER_ERROR} }
    \cup {NetworkFailure}

\* the message of an exception: what it says, and the status and body it
\* quotes (0 and "" when it quotes none)
Msg(what, st, text) == [what |-> what, status |-> st, text |-> text]

NoMsg == Msg("", 0, "")

\* the copies of get_default_branch: the three drivers' and the one of
\* src/src/default_branch_getter.py
GetterCopies == Variants \cup {"default_branch_getter"}

\* the URL get_default_branch asks for
MetadataUrl(v, o, rp) ==
    IF o = None THEN GITHUB_API \o "/repos/None/" \o rp
    ELSE IF o[1] = "" /\ v \in {"default_branch_getter", "src_gitripper"}
    THEN GITHUB_API \o "/repos/" \o rp
    ELSE GITHUB_API \o "/repos/" \o o[1] \o "/" \o rp

\* the 404 reply not told apart from the other failures
get_default_branch_no404(v, o, rp, rep) ==
    IF o = None /\ v # "root_gitripper"
    THEN [exc |-> "ValueError", value |-> "", requests |-> <<>>,
          msg |-> Msg("Owner cannot be None", 0, "")]
    ELSE LET rq == <<MetadataUrl(v, o, rp)>> IN
         IF rep.net
         THEN [exc |-> "RequestException", value |-> "", requests |-> rq,
               msg |-> NoMsg]
         ELSE IF rep.status = HTTP_OK
         THEN [exc |-> "none",
               value |-> IF rep.branch = None THEN "main" ELSE rep.branch[1],
               requests |-> rq, msg |-> NoMsg]
         ELSE [exc |-> "RuntimeError", value |-> "", requests |-> rq,
               msg |-> Msg("Failed to get repo info", rep.status, rep.text)]

\* get_default_branch: [exc, value, requests, msg]; requests are the URLs
\* it asked for
get_default_branch(v, o, rp, rep) ==
    IF o = None /\ v # "root_gitripper"
    THEN [exc |-> "ValueError", value |-> "", requests |-> <<>>,
          msg |-> Msg("Owner cannot be None", 0, "")]
    ELSE LET rq == <<MetadataUrl(v, o, rp)>> IN
         IF rep.net
         THEN [exc |-> "RequestException", value |-> "", requests |-> rq,
               msg |-> NoMsg]
         ELSE IF rep.status = HTTP_OK
         THEN [exc |-> "none",
               value |-> IF rep.branch = None THEN "main" ELSE rep.branch[1],
               requests |-> rq, msg |-> NoMsg]
         ELSE IF rep.status = HTTP_NOT_FOUND
         THEN [exc |-> "FileNotFoundError", value |-> "", requests |-> rq,
               msg |-> Msg("Repository not found (404).", 0, "")]
         ELSE [exc |-> "RuntimeError", value |-> "", requests |-> rq,
               msg |-> Msg("Failed to get repo info", rep.status, rep.text)]

RECURSIVE Written(_)
\* what the chunk loop writes: the non-empty chunks, in order
Written(chunks) ==
    IF chunks = <<>> THEN ""
    ELSE IF Head(chunks) = "" THEN Written(Tail(chunks))
    ELSE Head(chunks) \o Written(Tail(chunks))

\* the file is opened before the status is looked at
download_zip_open_first(o, rp, rf, dir, rep) ==
    LET rq == <<GITHUB_API \o "/repos/" \o o \o "/" \o rp \o "/zipball/" \o rf>>
        name == rp \o "-" \o rf \o ".zip"
        made == IF IndexOf(name, "/") # 0 THEN {}
                ELSE {[path |-> dir \o "/" \o name, data |-> ""]}
    IN
    IF rep.net
    THEN [exc |-> "RequestException", path |-> "", requests |-> rq,
          files |-> {}, msg |-> NoMsg]
    ELSE IF rep.status = HTTP_OK
    THEN IF IndexOf(name, "/") # 0
         THEN [exc |-> "FileNotFoundError", path |-> "", requests |-> rq,
               files |-> {}, msg |-> NoMsg]
         ELSE [exc |-> "none", path |-> dir \o "/" \o name, requests |-> rq,
               files |-> {[path |-> dir \o "/" \o name,
                           data |-> Written(rep.chunks)]},
               msg |-> NoMsg]
    ELSE IF rep.status \in {HTTP_MOVED, HTTP_FOUND}
    THEN [exc |-> "RuntimeError", path |-> "", requests |-> rq,
          files |-> made, msg |-> Msg("Unexpected redirect", rep.status, "")]
    ELSE IF rep.status = HTTP_NOT_FOUND
    THEN [exc |-> "FileNotFoundError", path |-> "", requests |-> rq,
          files |-> made, msg |-> Msg("Archive not found (404).", 0, "")]
    ELSE [exc |-> "RuntimeError", path |-> "", requests |-> rq,
          files |-> made,
          msg |-> Msg("Failed to download archive", rep.status, rep.text)]

\* download_zip: [exc, path, requests, files, msg]; requests are the URLs
\* it asked for, files the files it created.  On status 200 the body goes
\* to <dir>/<repo>-<ref>.zip; open() fails when that name has a "/" in it,
\* the directory it then names not being there.
download_zip(o, rp, rf, dir, rep) ==
    LET rq == <<GITHUB_API \o "/repos/" \o o \o "/" \o rp \o "/zipball/" \o rf>>
        name == rp \o "-" \o rf \o ".zip"
    IN
    IF rep.net
    THEN [exc |-> "RequestException", path |-> "", requests |-> rq,
          files |-> {}, msg |-> NoMsg]
    ELSE IF rep.status = HTTP_OK
    THEN IF IndexOf(name, "/") # 0
         THEN [exc |-> "FileNotFoundError", path |-> "", requests |-> rq,
               files |-> {}, msg |-> NoMsg]
         ELSE [exc |-> "none", path |-> dir \o "/" \o name, requests |-> rq,
               files |-> {[path |-> dir \o "/" \o name,
                           data |-> Written(rep.chunks)]},
               msg |-> NoMsg]
    ELSE IF rep.status \in {HTTP_MOVED, HTTP_FOUND}
    THEN [exc |-> "RuntimeError", path |-> "", requests |-> rq,
          files |-> {}, msg |-> Msg("Unexpected redirect", rep.status, "")]
    ELSE IF rep.status = HTTP_NOT_FOUND
    THEN [exc |-> "FileNotFoundError", path |-> "", requests |-> rq,
          files |-> {}, msg |-> Msg("Archive not found (404).", 0, "")]
    ELSE [exc |-> "RuntimeError", path |-> "", requests |-> rq,
          files |-> {},
          msg |-> Msg("Failed to download archive", rep.status, rep.text)]

-----------------------------------------------------------------------------
(* extract_zip and remove_embedded_git on directory trees.  A tree is the
   set of the entries below a directory, each with its path relative to
   that directory, its kind and, for a file, its bytes. *)

Node(path, kind, data) == [path |-> path, kind |-> kind, data |-> data]

FileNode(path, data) == Node(path, "file", data)

DirNode(path) == Node(path, "dir", "")

IsPrefix(p, q) == Len(p) <= Len(q) /\ SubSeq(q, 1, Len(p)) = p

\* the entries strictly below path p, with paths relative to p
Subtree(tree, p) ==
    { Node(SubSeq(n.path, Len(p) + 1, Len(n.path)), n.kind, n.data) :
        n \in { m \in tree : IsPrefix(p, m.path) /\ Len(m.path) > Len(p) } }

\* rmtree(p), unlink(p): p and everything below it gone
rmtree(tree, p) == { n \in tree : ~IsPrefix(p, n.path) }

\* iterdir of the tree's directory: the names directly in it
iterdir(tree) == { n.path[1] : n \in tree }

\* a place in the file system: whether its parent directory is there,
\* what is at the place, and the tree below it when it is a directory
Place(parent, kind, nodes) ==
    [parent |-> parent, kind |-> kind, nodes |-> nodes]

\* an archive: whether ZipFile can read it, and its entries in order
Zip(readable, entries) == [readable |-> readable, entries |-> entries]

\* zf.extractall: every entry written in order, a later entry of the same
\* name over an earlier one, the directories on the way created
extractall(entries) ==
    LET paths == { entries[i].path : i \in DOMAIN entries }
        last(q) == entries[CHOOSE i \in DOMAIN entries :
                             /\ entries[i].path = q
                             /\ \A j \in DOMAIN entries :
                                  j > i => entries[j].path # q]
    IN { last(q) : q \in paths }
       \cup UNION { { DirNode(SubSeq(q, 1, k)) : k \in 1..(Len(q) - 1) } :
                    q \in paths }

\* namelist() always taken as non-empty
NamelistEmptyNever(entries) == FALSE

\* `not zf.namelist()`
NamelistEmpty(entries) == entries = <<>>

\* the unpacked tree itself taken as the source, whatever is in it
source_dir_unstripped(scratch) == scratch

\* source_dir: the only top-level directory of the unpacked tree when
\* there is exactly one, the unpacked tree itself otherwise
source_dir(scratch) ==
    LET top_level_dirs ==
            { n \in scratch : Len(n.path) = 1 /\ n.kind = "dir" }
    IN IF Cardinality(top_level_dirs) = 1
       THEN Subtree(scratch, (CHOOSE n \in top_level_dirs : TRUE).path)
       ELSE scratch

\* the items moved onto what is at their targets, nothing removed first
InstallMerged(nodes, source, names) ==
    nodes \cup { n \in source : n.path[1] \in names }

\* the loop over source_dir.iterdir() for the items in names: what is at
\* the target is removed, then the item moved there
Install(nodes, source, names) ==
    { n \in nodes : n.path[1] \notin names }
    \cup { n \in source : n.path[1] \in names }

\* where extract_zip stops: nowhere, in extractall, or in the loop at the
\* item victim, in the removal of its target or in its move, the items in
\* done being installed by then
NoFailure == [at |-> "none", done |-> {}, victim |-> ""]

LoopFailure(at, done, victim) == [at |-> at, done |-> done, victim |-> victim]

\* the stops possible for an archive and a destination
FailuresOf(place, zip) ==
    LET names == iterdir(source_dir(extractall(zip.entries))) IN
    {NoFailure, LoopFailure("extractall", {}, "")}
    \cup { f \in { LoopFailure(at, done, v) :
                     at \in {"move", "remove"}, done \in SUBSET names,
                     v \in names } :
            /\ f.victim \notin f.done
            /\ f.at = "remove" => f.victim \in iterdir(place.nodes) }

\* the archive unpacked straight into the destination, no scratch directory
extract_zip_tree_in_place(zip, place, failure) ==
    IF ~zip.readable
    THEN [exc |-> "BadZipFile", msg |-> "", place |-> place,
          scratch |-> FALSE]
    ELSE IF NamelistEmpty(zip.entries)
    THEN [exc |-> "RuntimeError", msg |-> "Zip archive is empty.",
          place |-> place, scratch |-> FALSE]
    ELSE IF place.kind = "file"
    THEN [exc |-> "FileExistsError", msg |-> "", place |-> place,
          scratch |-> FALSE]
    ELSE IF failure.at = "extractall"
    THEN [exc |-> "OSError", msg |-> "",
          place |-> Place(TRUE, "dir",
                          place.nodes
                          \cup extractall(SubSeq(zip.entries, 1, 1))),
          scratch |-> FALSE]
    ELSE [exc |-> "none", msg |-> "",
          place |-> Place(TRUE, "dir",
                          place.nodes \cup extractall(zip.entries)),
          scratch |-> FALSE]

\* extract_zip on a tree: [exc, msg, place, scratch]; place is the
\* destination afterwards, scratch whether the TemporaryDirectory was made
extract_zip_tree(zip, place, failure) ==
    IF ~zip.readable
    THEN [exc |-> "BadZipFile", msg |-> "", place |-> place,
          scratch |-> FALSE]
    ELSE IF NamelistEmpty(zip.entries)
    THEN [exc |-> "RuntimeError", msg |-> "Zip archive is empty.",
          place |-> place, scratch |-> FALSE]
    ELSE IF failure.at = "extractall"
    THEN [exc |-> "OSError", msg |-> "", place |-> place, scratch |-> TRUE]
    ELSE IF place.kind = "file"
    THEN [exc |-> "FileExistsError", msg |-> "", place |-> place,
          scratch |-> TRUE]
    ELSE LET source == source_dir(extractall(zip.entries))
             made == Place(TRUE, "dir", place.nodes)
             stopped == /\ failure.at \in {"move", "remove"}
                        /\ failure.victim \in iterdir(source)
                        /\ failure.victim \notin failure.done
             done == failure.done \cap iterdir(source)
         IN IF ~stopped
            THEN [exc |-> "none", msg |-> "",
                  place |-> Place(TRUE, "dir",
                                  Install(place.nodes, source,
                                          iterdir(source))),
                  scratch |-> TRUE]
            ELSE IF failure.at = "remove"
            THEN [exc |-> "OSError", msg |-> "",
                  place |-> Place(TRUE, "dir",
                                  Install(place.nodes, source, done)),
                  scratch |-> TRUE]
            ELSE [exc |-> "OSError", msg |-> "",
                  place |-> Place(TRUE, "dir",
                                  rmtree(Install(place.nodes, source, done),
                                         <<failure.victim>>)),
                  scratch |-> TRUE]

\* a file or a directory named .git counted among dirs
GitListedAnyKind(tree, root) ==
    \E n \in tree : n.path = root \o <<".git">>

\* `".git" in dirs` for the directory root of the walk
GitListed(tree, root) == DirNode(root \o <<".git">>) \in tree

RECURSIVE walk(_, _, _)
\* the walk from root down: the .git directories rmtree is called on.  The
\* subdirectories are those listed before the removal; one that is gone by
\* then yields nothing.
walk(tree, root, failing) ==
    LET dirs == { n \in tree : /\ n.kind = "dir"
                               /\ Len(n.path) = Len(root) + 1
                               /\ IsPrefix(root, n.path) }
        git_dir == root \o <<".git">>
        tried == IF GitListed(tree, root) THEN {git_dir} ELSE {}
        after == IF tried # {} /\ git_dir \notin failing
                 THEN rmtree(tree, git_dir) ELSE tree
    IN tried \cup UNION { walk(after, d.path, failing) :
                            d \in { e \in dirs : e \in after } }

\* nothing looked for, nothing removed
remove_embedded_git_noop(tree, failing) == [tree |-> tree, warnings |-> {}]

\* remove_embedded_git: [tree, warnings]; failing are the directories whose
\* rmtree raises OSError, each reported and left
remove_embedded_git(tree, failing) ==
    LET tried == walk(tree, <<>>, failing) IN
    [tree |-> { n \in tree :
                  \A g \in tried \ failing : ~IsPrefix(g, n.path) },
     warnings |-> tried \cap failing]

\* a tree has, for each of its entries, the directories above it
IsTree(nodes) ==
    \A n \in nodes : \A k \in 1..(Len(n.path) - 1) :
        DirNode(SubSeq(n.path, 1, k)) \in nodes

GitDirsOf(tree) ==
    { n.path : n \in { m \in tree : /\ m.kind = "dir"
                                    /\ m.path[Len(m.path)] = ".git" } }

-----------------------------------------------------------------------------
(* The destination and the archive *)

\* What the filesystem holds at the destination path: nothing, a regular
\* file, or a directory with the given tree below it.
Absent == [kind |-> "absent", entries |-> {}]

RegularFile == [kind |-> "file", entries |-> {}]

Dir(names) == [kind |-> "dir", entries |-> names]

\* the destination never found
ExistsNever(fs) == FALSE

\* dest.exists()
Exists(fs) == fs.kind # "absent"

\* the removal leaving the destination where it was
RemovedKept(fs) == fs

\* the destination after rmtree(dest) or dest.unlink() went through
Removed(fs) == Absent

\* The conditions an archive can be in when extract_zip opens it: the move
\* of the first item or of a later one can fail.
ArchiveConds ==
    {"ok", "corrupt", "empty", "io_unpack", "io_move", "io_move_late"}

\* the archive main downloads: a wrapper directory around a file, the
\* repository's own .git and a subdirectory with an embedded one
DriverArchive ==
    << DirNode(<<"W">>), FileNode(<<"W", "file.txt">>, "hello world"),
       DirNode(<<"W", ".git">>), FileNode(<<"W", ".git", "config">>, "G"),
       DirNode(<<"W", "sub">>), DirNode(<<"W", "sub", ".git">>) >>

\* top-level names the archive installs
ArchiveNames == iterdir(source_dir(extractall(DriverArchive)))

\* the archive file in condition cond
ZipOf(cond) ==
    IF cond = "corrupt" THEN Zip(FALSE, <<>>)
    ELSE IF cond = "empty" THEN Zip(TRUE, <<>>)
    ELSE Zip(TRUE, DriverArchive)

\* where extract_zip stops in condition cond
FailureOf(cond) ==
    IF cond = "io_unpack" THEN LoopFailure("extractall", {}, "")
    ELSE IF cond = "io_move" THEN LoopFailure("move", {}, "file.txt")
    ELSE IF cond = "io_move_late"
    THEN LoopFailure("move", {"file.txt"}, "sub")
    ELSE NoFailure

\* extract_zip: [exc, fs], fs being the destination afterwards
extract_zip(fs, cond) ==
    LET r == extract_zip_tree(ZipOf(cond),
                              Place(TRUE, fs.kind, fs.entries),
                              FailureOf(cond))
    IN [exc |-> r.exc,
        fs |-> [kind |-> r.place.kind, entries |-> r.place.nodes]]

-----------------------------------------------------------------------------
(* git *)

\* check_git_installed: how `git --version` went -> the exception raised
\* ("none" when it returns).  run raises OSError when git cannot be started
\* and CalledProcessError when it exits non-zero.
GitRuns == {"ok", "FileNotFoundError", "CalledProcessError"}

\* the class check_git_installed catches around run
CheckGitCatches(v) == IF v = "root_gitripper" THEN "Exception" ELSE "OSError"

\* the failure caught and not raised again
check_git_installed_silent(v, run) ==
    IF run = "ok" \/ IsInstance(run, CheckGitCatches(v)) THEN "none" ELSE run

check_git_installed(v, run) ==
    IF run = "ok" THEN "none"
    ELSE IF IsInstance(run, CheckGitCatches(v)) THEN EnvironmentError
    ELSE run

\* the commit issued before the files are staged
GitPlanCommitFirst(author_name, author_email, remote) ==
    <<  <<"init">> >>
    \o (IF Truthy(author_name)
        THEN << <<"config", "user.name", author_name[1]>> >> ELSE <<>>)
    \o (IF Truthy(author_email)
        THEN << <<"config", "user.email", author_email[1]>> >> ELSE <<>>)
    \o << <<"commit", "-m", "Initial commit">>, <<"add", ".">> >>
    \o (IF Truthy(remote)
        THEN << <<"remote", "add", "origin", remote[1]>> >> ELSE <<>>)

\* the commands initialize_repo means to issue, in order
GitPlan(author_name, author_email, remote) ==
    <<  <<"init">> >>
    \o (IF Truthy(author_name)
        THEN << <<"config", "user.name", author_name[1]>> >> ELSE <<>>)
    \o (IF Truthy(author_email)
        THEN << <<"config", "user.email", author_email[1]>> >> ELSE <<>>)
    \o << <<"add", ".">>, <<"commit", "-m", "Initial commit">> >>
    \o (IF Truthy(remote)
        THEN << <<"remote", "add", "origin", remote[1]>> >> ELSE <<>>)

\* how a git command can fail (check=True)
GitFailures == {"CalledProcessError", "FileNotFoundError"}

\* every command run whether or not one before it failed
initialize_repo_unchecked(author_name, author_email, remote, failAt, failure) ==
    LET plan == GitPlan(author_name, author_email, remote) IN
    IF failAt \in 1..Len(plan)
    THEN [exc |-> failure, cmds |-> plan]
    ELSE [exc |-> "none", cmds |-> plan]

\* initialize_repo: the failAt-th command fails with failure (0: none does);
\* [exc, cmds], cmds being the commands issued
initialize_repo(author_name, author_email, remote, failAt, failure) ==
    LET plan == GitPlan(author_name, author_email, remote) IN
    IF failAt \in 1..Len(plan)
    THEN [exc |-> failure, cmds |-> SubSeq(plan, 1, failAt)]
    ELSE [exc |-> "none", cmds |-> plan]

-----------------------------------------------------------------------------
(* main: the exception classes each variant's handlers catch *)

\* around download_zip
DownloadCatches(v) == IF v = "main" THEN "RequestException" ELSE "Exception"

\* around extract_zip
ExtractCatches(v) == IF v = "main" THEN "OSError" ELSE "Exception"

\* around the removal of an existing destination
CleanupCatches(v) == IF v = "root_gitripper" THEN "Exception" ELSE "OSError"

\* a handler that only expects the generic metadata failure
LookupCatchesRuntimeError(v) == "RuntimeError"

\* around get_default_branch
LookupCatches(v) == "Exception"

\* around initialize_repo: the exit code for exception e, 0 when no
\* handler catches it
InitFailureCode(v, e) ==
    CASE v = "main" ->
            IF IsInstance(e, "OSError") THEN ERR_INIT_FAILED ELSE 0
      [] v = "src_gitripper" ->
            IF IsInstance(e, "Exception") THEN ERR_INIT_FAILED ELSE 0
      [] v = "root_gitripper" ->
            IF IsInstance(e, "CalledProcessError") THEN ERR_INIT_FAILED
            ELSE IF IsInstance(e, "Exception") THEN ERR_INIT_OTHER
            ELSE 0

\* the copy of parse_github_url each variant calls
ParseOf(v, url) ==
    CASE v = "main" -> parse_github_url_main(url)
      [] v = "src_gitripper" -> parse_github_url_src(url)
      [] v = "root_gitripper" -> parse_github_url_root(url)

\* whether main treats the parse as failed and exits with code 2
ParseRejected(v, r) ==
    CASE v = "main" -> r.exc = "ValueError" \/ r.owner = "" \/ r.repo = ""
      [] v = "src_gitripper" -> r.exc = "ValueError"
      [] v = "root_gitripper" -> r.exc = "ValueError"

\* Path.resolve() of a relative path
resolve(p) == "/cwd/" \o p

\* the destination path
DestPath(v, d, rp) ==
    IF Truthy(d) THEN d[1]
    ELSE IF v = "main"
         THEN resolve(IF rp # "" THEN rp \o "-copy" ELSE "repo-copy")
         ELSE resolve(rp \o "-copy")

\* rmtree(dest) if dest.is_dir() else dest.unlink()
RemovalOf(fs) == IF fs.kind = "dir" THEN "rmtree" ELSE "unlink"

\* the guard with the test of --force inverted
DestBlockedWhenForced(fs, force) == Exists(fs) /\ fs.entries # {} /\ force

\* the destination guard: exists, has entries, and --force is absent
DestBlocked(fs, force) == Exists(fs) /\ fs.entries # {} /\ ~force

\* the lookup made whether or not a branch was given
NeedsLookupAlways(v, branch) == TRUE

\* whether main asks the API for the default branch
NeedsLookup(v, branch) ==
    IF v = "main" THEN ~Truthy(branch) ELSE branch = None

\* the directory TemporaryDirectory() hands to main
TMP == "/tmp/tmpdir"

\* the directory TemporaryDirectory() hands to extract_zip
SCRATCH == "/tmp/scratch"

\* a with-block that leaves its directory behind
CleanupSkipped(live, d) == live

\* leaving `with TemporaryDirectory()`: the directory is removed, however
\* the block is left (normally, by sys.exit, by an exception)
Cleanup(live, d) == live \ {d}

\* extract_zip creates its scratch directory once the archive is open and
\* found non-empty
ScratchMade(cond) == IF cond \in {"corrupt", "empty"} THEN {} ELSE {SCRATCH}

\* author name and email passed in each other's place
InitArgsSwapped(d, a) == <<Some(d), a.author_email, a.author_name, a.remote>>

\* arguments main passes to initialize_repo
InitArgs(d, a) == <<Some(d), a.author_name, a.author_email, a.remote>>

\* arguments main passes to download_zip (the token aside)
DownloadArgs(o, rp, rf, dir) == <<Some(o), Some(rp), rf, Some(dir)>>

\* arguments main passes to extract_zip
ExtractArgs(zp, d) == <<zp, Some(d)>>

-----------------------------------------------------------------------------
(* main as a state machine *)

\* one call made by main: the function, its arguments, the exception it
\* raised ("none" when it returned) and the path it returned (None otherwise)
Call(fn, a, e, r) == [fn |-> fn, args |-> a, exc |-> e, ret |-> r]

Running == [status |-> "running", code |-> 0, exc |-> "none"]

\* sys.exit(code)
Exit(code) ==
    /\ outcome' = [status |-> "exited", code |-> code, exc |-> "none"]
    /\ pc' = "done"

\* exception e leaves main
Escape(e) ==
    /\ outcome' = [status |-> "raised", code |-> UNCAUGHT_STATUS, exc |-> e]
    /\ pc' = "done"

\* main returns
Return ==
    /\ outcome' = [status |-> "returned", code |-> 0, exc |-> "none"]
    /\ pc' = "done"

Goto(l) == pc' = l /\ UNCHANGED outcome

IdleProbe == [class |-> "none", owner |-> "", repo |-> "", url |-> ""]

NoResult == [parser |-> "none", exc |-> "none", owner |-> "", repo |-> ""]

\* URLs given on the command line
DriverUrls ==
    { "https://github.com/user/repo", "git@github.com:user/repo.git",
      "https://gitlab.com/user/repo", "not a url", "user/repo" }

Branches == {None, Some(""), Some("develop")}

DestArgs == {None, Some("out")}

Identities ==
    [author_name : {None, Some(""), Some("Test")},
     author_email : {None, Some("test@test.com")},
     remote : {None, Some("git@github.com:user/new.git")}]

OldTree ==
    { FileNode(<<"file.txt">>, "OLD"), DirNode(<<"docs">>),
      FileNode(<<"docs", "old.txt">>, "O") }

InitialDests == {Absent, Dir({}), Dir(OldTree), RegularFile}

Init ==
    /\ variant \in Variants
    /\ \E u \in DriverUrls, b \in Branches, d \in DestArgs, i \in Identities,
          f \in BOOLEAN :
          args = [url |-> u, branch |-> b, dest |-> d, force |-> f,
                  author_name |-> i.author_name,
                  author_email |-> i.author_email, remote |-> i.remote]
    /\ pc = "parse"
    /\ owner = ""
    /\ repo = ""
    /\ ref = None
    /\ zip_path = None
    /\ dest = ""
    /\ dest_fs \in InitialDests
    /\ dest_fs0 = dest_fs
    /\ calls = <<>>
    /\ git_cmds = <<>>
    /\ git_probe = "unset"
    /\ temp_live = {}
    /\ temp_made = {}
    /\ git_warnings = {}
    /\ outcome = Running
    /\ probe = IdleProbe
    /\ result = NoResult

\* parse the URL, compute the destination path
ParseUrl ==
    /\ pc = "parse"
    /\ LET r == ParseOf(variant, args.url) IN
       /\ calls' = Append(calls, Call("parse_github_url", <<Some(args.url)>>,
                                      r.exc, None))
       /\ IF ParseRejected(variant, r)
          THEN Exit(ERR_INVALID_URL) /\ UNCHANGED <<owner, repo, dest>>
          ELSE /\ owner' = r.owner
               /\ repo' = r.repo
               /\ dest' = DestPath(variant, args.dest, r.repo)
               /\ Goto("dest_check")
    /\ UNCHANGED <<variant, args, ref, zip_path, dest_fs, dest_fs0, git_cmds,
                   git_probe, temp_live, temp_made, probe, result,
                   git_warnings>>

\* the destination guard and, with --force, the removal of the destination
CheckDest ==
    /\ pc = "dest_check"
    /\ IF ~Exists(dest_fs)
       THEN Goto("check_git") /\ UNCHANGED <<dest_fs, calls>>
       ELSE IF dest_fs.kind = "file"
       THEN \* any(dest.iterdir()) on a regular file
            Escape("NotADirectoryError") /\ UNCHANGED <<dest_fs, calls>>
       ELSE IF DestBlocked(dest_fs, args.force)
       THEN Exit(ERR_DEST_EXISTS) /\ UNCHANGED <<dest_fs, calls>>
       ELSE IF args.force
       THEN \/ /\ calls' = Append(calls, Call(RemovalOf(dest_fs), <<Some(dest)>>,
                                                "none", None))
               /\ dest_fs' = Removed(dest_fs)
               /\ Goto("check_git")
            \/ /\ calls' = Append(calls, Call(RemovalOf(dest_fs), <<Some(dest)>>,
                                                "PermissionError", None))
               /\ \E left \in { t \in SUBSET dest_fs.entries : IsTree(t) } :
                    dest_fs' = Dir(left)
               /\ IF IsInstance("PermissionError", CleanupCatches(variant))
                     THEN Exit(ERR_CLEANUP_FAILED)
                  ELSE Escape("PermissionError")
       ELSE Goto("check_git") /\ UNCHANGED <<dest_fs, calls>>
    /\ UNCHANGED <<variant, args, owner, repo, ref, zip_path, dest, dest_fs0,
                   git_cmds, git_probe, temp_live, temp_made, probe, result,
                   git_warnings>>

\* check_git_installed()
CheckGit ==
    /\ pc = "check_git"
    /\ \E run \in GitRuns :
          LET e == check_git_installed(variant, run) IN
          /\ git_probe' = run
          /\ calls' = Append(calls, Call("check_git_installed", <<>>, e, None))
          /\ IF e = "none" THEN Goto("resolve_ref")
             ELSE IF IsInstance(e, EnvironmentError)
             THEN Exit(ERR_GIT_NOT_FOUND)
             ELSE Escape(e)
    /\ UNCHANGED <<variant, args, owner, repo, ref, zip_path, dest, dest_fs,
                   dest_fs0, git_cmds, temp_live, temp_made, probe, result,
                   git_warnings>>

\* ref = args.branch, or the default branch, or "main"
ResolveRef ==
    /\ pc = "resolve_ref"
    /\ IF NeedsLookup(variant, args.branch)
       THEN \E rep \in MetadataReplies :
               LET r == get_default_branch(variant, Some(owner), repo, rep) IN
               /\ calls' = Append(calls, Call("get_default_branch",
                                              <<Some(owner), Some(repo)>>,
                                              r.exc, None))
               /\ IF r.exc = "none"
                  THEN ref' = Some(r.value) /\ Goto("download")
                  ELSE IF IsInstance(r.exc, LookupCatches(variant))
                  THEN ref' = Some("main") /\ Goto("download")
                  ELSE ref' = ref /\ Escape(r.exc)
       ELSE /\ ref' = args.branch
            /\ UNCHANGED calls
            /\ Goto("download")
    /\ UNCHANGED <<variant, args, owner, repo, zip_path, dest, dest_fs,
                   dest_fs0, git_cmds, git_probe, temp_live, temp_made,
                   probe, result,
                   git_warnings>>

\* download_zip(owner, repo, ref, token, tmp_dir_path)
Download ==
    /\ pc = "download"
    /\ \E rep \in ArchiveReplies :
          LET r == download_zip(owner, repo, ref[1], TMP, rep) IN
          /\ calls' = Append(calls,
                 Call("download_zip", DownloadArgs(owner, repo, ref, TMP),
                      r.exc, IF r.exc = "none" THEN Some(r.path) ELSE None))
          /\ IF r.exc = "none"
             THEN /\ zip_path' = Some(r.path)
                  /\ temp_live' = temp_live \cup {TMP}
                  /\ Goto("extract")
             ELSE /\ zip_path' = zip_path
                  /\ temp_live' = Cleanup(temp_live \cup {TMP}, TMP)
                  /\ IF IsInstance(r.exc, DownloadCatches(variant))
                     THEN Exit(ERR_DOWNLOAD_FAILED)
                     ELSE Escape(r.exc)
    /\ temp_made' = temp_made \cup {TMP}
    /\ UNCHANGED <<variant, args, owner, repo, ref, dest, dest_fs, dest_fs0,
                   git_cmds, git_probe, probe, result,
                   git_warnings>>

\* extract_zip(zip_path, dest)
Extract ==
    /\ pc = "extract"
    /\ \E cond \in ArchiveConds :
          LET r == extract_zip(dest_fs, cond) IN
          /\ calls' = Append(calls, Call("extract_zip",
                                         ExtractArgs(zip_path, dest),
                                         r.exc, None))
          /\ dest_fs' = r.fs
          /\ temp_made' = temp_made \cup ScratchMade(cond)
          /\ temp_live' = Cleanup(Cleanup(temp_live \cup ScratchMade(cond),
                                          SCRATCH), TMP)
          /\ IF r.exc = "none" THEN Goto("remove_git")
             ELSE IF IsInstance(r.exc, ExtractCatches(variant))
             THEN Exit(ERR_EXTRACTION_FAILED)
             ELSE Escape(r.exc)
    /\ UNCHANGED <<variant, args, owner, repo, ref, zip_path, dest, dest_fs0,
                   git_cmds, git_probe, probe, result,
                   git_warnings>>

\* a deletion failure ending the run
RemoveGitFatal ==
    /\ pc = "remove_git"
    /\ \E failing \in SUBSET GitDirsOf(dest_fs.entries) :
          LET r == remove_embedded_git(dest_fs.entries, failing) IN
          /\ dest_fs' = Dir(r.tree)
          /\ git_warnings' = r.warnings
          /\ IF r.warnings = {} THEN Goto("init_repo")
             ELSE Exit(ERR_EXTRACTION_FAILED)
    /\ calls' = Append(calls, Call("remove_embedded_git", <<Some(dest)>>,
                                   "none", None))
    /\ UNCHANGED <<variant, args, owner, repo, ref, zip_path, dest,
                   dest_fs0, git_cmds, git_probe, temp_live, temp_made,
                   probe, result>>

\* remove_embedded_git(dest): failures are warnings, it always returns
RemoveGit ==
    /\ pc = "remove_git"
    /\ \E failing \in SUBSET GitDirsOf(dest_fs.entries) :
          LET r == remove_embedded_git(dest_fs.entries, failing) IN
          /\ dest_fs' = Dir(r.tree)
          /\ git_warnings' = r.warnings
    /\ calls' = Append(calls, Call("remove_embedded_git", <<Some(dest)>>,
                                   "none", None))
    /\ Goto("init_repo")
    /\ UNCHANGED <<variant, args, owner, repo, ref, zip_path, dest,
                   dest_fs0, git_cmds, git_probe, temp_live, temp_made,
                   probe, result>>

\* initialize_repo(dest, author_name, author_email, remote)
InitRepo ==
    /\ pc = "init_repo"
    /\ \E failAt \in 0..Len(GitPlan(args.author_name, args.author_email,
                                    args.remote)),
          failure \in GitFailures :
          LET r == initialize_repo(args.author_name, args.author_email,
                                   args.remote, failAt, failure)
          IN /\ calls' = Append(calls, Call("initialize_repo",
                                            InitArgs(dest, args), r.exc, None))
             /\ git_cmds' = r.cmds
             /\ IF r.exc = "none" THEN Return
                ELSE IF InitFailureCode(variant, r.exc) # 0
                THEN Exit(InitFailureCode(variant, r.exc))
                ELSE Escape(r.exc)
    /\ UNCHANGED <<variant, args, owner, repo, ref, zip_path, dest, dest_fs,
                   dest_fs0, git_probe, temp_live, temp_made, probe, result,
                   git_warnings>>

Next ==
    \/ ParseUrl
    \/ CheckDest
    \/ CheckGit
    \/ ResolveRef
    \/ Download
    \/ Extract
    \/ RemoveGit
    \/ InitRepo

Spec == Init /\ [][Next]_vars

-----------------------------------------------------------------------------
(* Properties of main *)

\* the calls of function fn among calls
CallsOf(fn) == {i \in 1..Len(calls) : calls[i].fn = fn}

Exited(code) == outcome.status = "exited" /\ outcome.code = code

\* main got past the URL: the destination path is known and the guard runs
PastParse == pc # "parse" /\ ~Exited(ERR_INVALID_URL)

\* C1: once the URL is parsed, a run that found the destination existing,
\* non-empty and without --force ends with exit code 3, leaves the
\* destination as it was, and never calls check_git_installed,
\* get_default_branch, download_zip, extract_zip or initialize_repo.
C1_DestGuardExits3 ==
    (PastParse /\ dest_fs0.kind = "dir" /\ dest_fs0.entries # {}
        /\ ~args.force)
    => /\ dest_fs = dest_fs0
       /\ \A fn \in {"check_git_installed", "get_default_branch",
                     "download_zip", "extract_zip", "initialize_repo",
                     "rmtree", "remove_embedded_git"} : CallsOf(fn) = {}
       /\ pc \in {"dest_check", "done"}
       /\ pc = "done" => Exited(ERR_DEST_EXISTS)

C1_Witness ==
    /\ pc = "done" /\ Exited(ERR_DEST_EXISTS)
    /\ dest_fs0 = Dir(OldTree) /\ ~args.force
    /\ dest_fs = dest_fs0

\* URLs of the command line that have none of the recognised forms
InvalidDriverUrls == {"https://gitlab.com/user/repo", "not a url", "user/repo"}

\* C4: in src/src/gitripper.py and src/src/main.py a URL of no recognised
\* form ends the run with exit code 2 after the parse, before anything else
\* is called.
C4_InvalidUrlExits2 ==
    (variant \in {"main", "src_gitripper"} /\ args.url \in InvalidDriverUrls)
    => \/ pc = "parse"
       \/ Exited(ERR_INVALID_URL) /\ Len(calls) = 1 /\ dest_fs = dest_fs0

\* C5: when --branch names a ref, get_default_branch is never called and
\* every call of download_zip carries that ref; a run that got past the
\* download stage made exactly one such call.
C5_ExplicitRefSkipsLookup ==
    Truthy(args.branch)
    => /\ CallsOf("get_default_branch") = {}
       /\ \A i \in CallsOf("download_zip") : calls[i].args[3] = args.branch
       /\ pc \in {"extract", "remove_git", "init_repo"}
            => Cardinality(CallsOf("download_zip")) = 1

C5_Witness ==
    /\ args.branch = Some("develop")
    /\ \E i \in CallsOf("download_zip") : calls[i].args[3] = Some("develop")
    /\ pc = "extract"

\* C6: when no ref is given and get_default_branch raises, main does not
\* stop there: ref is "main" and the next call, the only download_zip of
\* the run, gets ref "main".
C6_LookupFailureFallsBack ==
    \A i \in CallsOf("get_default_branch") :
        (~Truthy(args.branch) /\ calls[i].exc # "none")
        => /\ ref = Some("main")
           /\ \/ pc = "download" /\ outcome = Running /\ Len(calls) = i
              \/ /\ Len(calls) > i
                 /\ calls[i + 1].fn = "download_zip"
                 /\ calls[i + 1].args[3] = Some("main")
                 /\ CallsOf("download_zip") = {i + 1}

C6_Witness ==
    /\ args.branch = None
    /\ \E i \in CallsOf("get_default_branch") :
          /\ calls[i].exc = "FileNotFoundError"
          /\ Len(calls) > i
          /\ calls[i + 1].fn = "download_zip"
          /\ calls[i + 1].args[3] = Some("main")
          /\ calls[i + 1].exc = "none"

IsPipelineCall(c) ==
    c.fn \in {"download_zip", "extract_zip", "remove_embedded_git",
              "initialize_repo"}

\* C7: a run with an accepted URL, an explicit branch and a fresh
\* destination in which every stage succeeds calls download_zip,
\* extract_zip, remove_embedded_git and initialize_repo once each, in that
\* order: download_zip with the branch, extract_zip with the path
\* download_zip returned and the destination, remove_embedded_git with the
\* destination, initialize_repo with the destination and the author name,
\* author email and remote of the command line; main returns (exit 0).
C7_SuccessPath ==
    (outcome.status = "returned" /\ Truthy(args.branch) /\ dest_fs0 = Absent)
    => LET p == SelectSeq(calls, IsPipelineCall) IN
       /\ Len(p) = 4
       /\ p[1].fn = "download_zip" /\ p[1].args[3] = args.branch
       /\ p[1].exc = "none"
       /\ p[2].fn = "extract_zip" /\ p[2].args = <<p[1].ret, Some(dest)>>
       /\ p[2].exc = "none"
       /\ p[3].fn = "remove_embedded_git" /\ p[3].args = <<Some(dest)>>
       /\ p[4].fn = "initialize_repo"
       /\ p[4].args = <<Some(dest), args.author_name, args.author_email,
                        args.remote>>
       /\ p[4].exc = "none"
       /\ outcome.code = 0
       /\ CallsOf("get_default_branch") = {}

C7_Witness ==
    /\ outcome.status = "returned" /\ dest_fs0 = Absent
    /\ args.url = "https://github.com/user/repo"
    /\ args.branch = Some("develop")
    /\ args.author_name = Some("Test")
    /\ args.author_email = Some("test@test.com")
    /\ args.remote # None
    /\ Len(SelectSeq(calls, IsPipelineCall)) = 4

\* C8: in src/src/main.py and src/src/gitripper.py every failure of
\* download_zip ends the run with exit code 6, and extract_zip,
\* remove_embedded_git and initialize_repo are not called.
C8_DownloadFailureExits6 ==
    \A i \in CallsOf("download_zip") :
        (variant \in {"main", "src_gitripper"} /\ calls[i].exc # "none")
        => /\ Exited(ERR_DOWNLOAD_FAILED)
           /\ \A fn \in {"extract_zip", "remove_embedded_git",
                         "initialize_repo"} : CallsOf(fn) = {}

\* C9: in src/src/main.py and src/src/gitripper.py every failure of
\* extract_zip ends the run with exit code 7, and remove_embedded_git and
\* initialize_repo are not called.
C9_ExtractFailureExits7 ==
    \A i \in CallsOf("extract_zip") :
        (variant \in {"main", "src_gitripper"} /\ calls[i].exc # "none")
        => /\ Exited(ERR_EXTRACTION_FAILED)
           /\ \A fn \in {"remove_embedded_git", "initialize_repo"} :
                 CallsOf(fn) = {}

\* C10: in every variant every failure of initialize_repo ends the run
\* with exit code 8.
C10_InitFailureExits8 ==
    \A i \in CallsOf("initialize_repo") :
        calls[i].exc # "none" => Exited(ERR_INIT_FAILED)

\* C11: every run of main ends with an exit code of the table, 0 or 2..8:
\* no exception leaves main and no other code is produced.
C11_ExitCodeOfTable ==
    pc = "done"
    => /\ outcome.status \in {"returned", "exited"}
       /\ outcome.code \in {0, ERR_INVALID_URL, ERR_DEST_EXISTS,
                            ERR_CLEANUP_FAILED, ERR_GIT_NOT_FOUND,
                            ERR_DOWNLOAD_FAILED, ERR_EXTRACTION_FAILED,
                            ERR_INIT_FAILED}

\* C12: when git cannot be started, check_git_installed raises
\* EnvironmentError and main exits with code 5 without a metadata request,
\* a download, an extraction or a repository initialization.
C12_GitMissingExits5 ==
    git_probe = "FileNotFoundError"
    => /\ CallsOf("check_git_installed") = {Len(calls)}
       /\ IsInstance(calls[Len(calls)].exc, EnvironmentError)
       /\ Exited(ERR_GIT_NOT_FOUND)
       /\ \A fn \in {"get_default_branch", "download_zip", "extract_zip",
                     "remove_embedded_git", "initialize_repo"} :
             CallsOf(fn) = {}

C12_Witness ==
    /\ git_probe = "FileNotFoundError"
    /\ Exited(ERR_GIT_NOT_FOUND)
    /\ calls[Len(calls)].exc = EnvironmentError

\* position of a git command in the fixed order
GitRank(c) ==
    CASE c[1] = "init" -> 1
      [] c[1] = "config" /\ c[2] = "user.name" -> 2
      [] c[1] = "config" /\ c[2] = "user.email" -> 3
      [] c[1] = "add" -> 4
      [] c[1] = "commit" -> 5
      [] c[1] = "remote" -> 6
      [] OTHER -> 0

GitIssued(c) == \E i \in 1..Len(git_cmds) : git_cmds[i] = c

\* C16: whatever author name, author email and remote are given or left
\* out, initialize_repo issues its commands in the order init, config
\* user.name, config user.email, add ., commit -m "Initial commit", remote
\* add origin, each at most once; the config and remote commands only for a
\* value that was given (and with that value); and when it succeeds init,
\* add and commit have each been issued once, as has each command whose
\* value was given.
C16_GitCommandOrder ==
    /\ \A i, j \in 1..Len(git_cmds) :
          i < j => GitRank(git_cmds[i]) < GitRank(git_cmds[j])
    /\ \A i \in 1..Len(git_cmds) :
          LET c == git_cmds[i] IN
          CASE GitRank(c) = 1 -> c = <<"init">>
            [] GitRank(c) = 2 -> /\ Truthy(args.author_name)
                                 /\ c = <<"config", "user.name",
                                          args.author_name[1]>>
            [] GitRank(c) = 3 -> /\ Truthy(args.author_email)
                                 /\ c = <<"config", "user.email",
                                          args.author_email[1]>>
            [] GitRank(c) = 4 -> c = <<"add", ".">>
            [] GitRank(c) = 5 -> c = <<"commit", "-m", "Initial commit">>
            [] GitRank(c) = 6 -> /\ Truthy(args.remote)
                                 /\ c = <<"remote", "add", "origin",
                                          args.remote[1]>>
            [] OTHER -> FALSE
    /\ \A k \in CallsOf("initialize_repo") :
          calls[k].exc = "none"
          => /\ GitIssued(<<"init">>)
             /\ GitIssued(<<"add", ".">>)
             /\ GitIssued(<<"commit", "-m", "Initial commit">>)
             /\ Truthy(args.author_name)
                  => \E i \in 1..Len(git_cmds) : GitRank(git_cmds[i]) = 2
             /\ Truthy(args.author_email)
                  => \E i \in 1..Len(git_cmds) : GitRank(git_cmds[i]) = 3
             /\ Truthy(args.remote)
                  => \E i \in 1..Len(git_cmds) : GitRank(git_cmds[i]) = 6
    /\ CallsOf("initialize_repo") # {} => Len(git_cmds) >= 1

C16_Witness ==
    /\ outcome.status = "returned"
    /\ args.author_name = Some("Test")
    /\ args.author_email = Some("test@test.com")
    /\ args.remote # None
    /\ Len(git_cmds) = 6

\* C19: the temporary download directory of main and the scratch directory
\* of extract_zip are gone once the with-block of main is left, however it
\* is left: after a successful extraction and at the end of every run.
C19_TempDirsRemoved ==
    pc \in {"remove_git", "init_repo", "done"} => temp_live = {}

C19_Witness ==
    /\ pc = "done" /\ Exited(ERR_EXTRACTION_FAILED)
    /\ temp_made = {TMP, SCRATCH}
    /\ temp_live = {}
    /\ \E i \in CallsOf("extract_zip") : calls[i].exc = "OSError"

\* C20: with --force a destination that is a regular file is removed with
\* unlink and the run goes on to the git check; a failed removal, of a file
\* or of a directory, ends the run with exit code 4.
C20_ForceRemovesFile ==
    /\ (PastParse /\ pc # "dest_check" /\ dest_fs0.kind = "file"
           /\ args.force)
       => /\ CallsOf("unlink") # {}
          /\ \A i \in CallsOf("unlink") :
                calls[i].exc = "none"
                => /\ dest_fs.kind # "file"
                   /\ Len(calls) > i
                   /\ calls[i + 1].fn = "check_git_installed"
    /\ \A i \in CallsOf("unlink") \cup CallsOf("rmtree") :
          calls[i].exc # "none" => Exited(ERR_CLEANUP_FAILED)

\* C26: when the deletion of an embedded .git directory fails,
\* remove_embedded_git reports a warning, still attempts the deletion of
\* every other .git directory of the tree, returns normally, and main goes
\* on to initialize_repo instead of exiting.
C26_DeletionFailureIsWarning ==
    (CallsOf("remove_embedded_git") # {} /\ git_warnings # {})
    => /\ \A i \in CallsOf("remove_embedded_git") : calls[i].exc = "none"
       /\ GitDirsOf(dest_fs.entries) = git_warnings
       /\ \/ pc = "init_repo" /\ outcome = Running
          \/ CallsOf("initialize_repo") # {}

C26_Witness ==
    /\ git_warnings = { <<".git">> }
    /\ DirNode(<<".git">>) \in dest_fs.entries
    /\ DirNode(<<"sub", ".git">>) \notin dest_fs.entries
    /\ CallsOf("initialize_repo") # {}
    /\ outcome.status = "returned"

\* C27: in every run of main, initialize_repo is called only after
\* extract_zip has succeeded and remove_embedded_git has returned on the
\* same destination; so, when every deletion succeeds, no directory named
\* .git out of the archive is under the destination when 'git init' and
\* 'git add .' run.
C27_InitAfterExtractAndRemoveGit ==
    /\ \A i \in CallsOf("initialize_repo") :
         \E j \in CallsOf("extract_zip"), k \in CallsOf("remove_embedded_git") :
           /\ j < k /\ k < i
           /\ calls[j].exc = "none" /\ calls[k].exc = "none"
           /\ calls[j].args[2] = calls[i].args[1]
           /\ calls[k].args[1] = calls[i].args[1]
    /\ ((pc = "init_repo" \/ CallsOf("initialize_repo") # {})
        /\ git_warnings = {})
       => GitDirsOf(dest_fs.entries) = {}

C27_Witness ==
    /\ CallsOf("initialize_repo") # {}
    /\ git_cmds # <<>>
    /\ git_warnings = {}
    /\ FileNode(<<"file.txt">>, "hello world") \in dest_fs.entries
    /\ DirNode(<<"sub">>) \in dest_fs.entries
    /\ GitDirsOf(dest_fs.entries) = {}

\* C28: after a run of main that ends successfully, no file or directory
\* that was in the destination before the run is still there unless the
\* archive supplies an entry of the same path: with --force a non-empty
\* destination is wholly replaced by the installed archive tree, and
\* without --force the run only succeeds when the destination was absent
\* or empty.
C28_PriorContentsReplaced ==
    outcome.status = "returned"
    => LET installed == source_dir(extractall(DriverArchive)) IN
       /\ \A n \in dest_fs.entries : n \in installed
       /\ \A n \in dest_fs0.entries :
            n \in dest_fs.entries => n \in installed
       /\ ~args.force => dest_fs0 \in {Absent, Dir({})}

C28_Witness ==
    /\ outcome.status = "returned"
    /\ args.force
    /\ dest_fs0 = Dir(OldTree)
    /\ FileNode(<<"file.txt">>, "hello world") \in dest_fs.entries
    /\ FileNode(<<"file.txt">>, "OLD") \notin dest_fs.entries
    /\ DirNode(<<"docs">>) \notin dest_fs.entries

\* C29: with --force and an existing destination, main deletes the
\* destination before the git check, the ref resolution and the download
\* are attempted and never restores it: in every run that then exits with
\* code 5, 6 or 7 the destination's prior contents are already gone.
C29_ForceDeletesBeforeChecks ==
    ( /\ args.force /\ Exists(dest_fs0)
      /\ \/ Exited(ERR_GIT_NOT_FOUND)
         \/ Exited(ERR_DOWNLOAD_FAILED)
         \/ Exited(ERR_EXTRACTION_FAILED) )
    => /\ \E i \in CallsOf("rmtree") \cup CallsOf("unlink") :
            /\ calls[i].exc = "none"
            /\ \A j \in CallsOf("check_git_installed")
                        \cup CallsOf("get_default_branch")
                        \cup CallsOf("download_zip") : i < j
       /\ \A n \in dest_fs0.entries : n \notin dest_fs.entries
       /\ ~Exited(ERR_EXTRACTION_FAILED) => dest_fs = Absent

C29_Witness ==
    /\ args.force
    /\ dest_fs0 = Dir(OldTree)
    /\ Exited(ERR_DOWNLOAD_FAILED)
    /\ CallsOf("rmtree") # {}
    /\ dest_fs = Absent

-----------------------------------------------------------------------------
(* The parsers on their own: every copy of parse_github_url applied to     *)
(* URLs built from an owner and a repository name.                         *)

MaxOwnerLen == 1
MaxRepoLen == 2

NameAlphabet == {"a", ".", " "}

RECURSIVE StringsUpTo(_)
\* the strings over NameAlphabet of length at most n
StringsUpTo(n) ==
    IF n = 0 THEN {""}
    ELSE LET shorter == StringsUpTo(n - 1) IN
         shorter \cup {t \o c : t \in shorter, c \in NameAlphabet}

OwnerNames == StringsUpTo(MaxOwnerLen) \ {""}

\* repository names, among them names that end in ".git"
RepoNames == {b \o x : b \in StringsUpTo(MaxRepoLen), x \in {"", ".git"}} \ {""}

AcceptedForms ==
    {"https", "http", "https_git", "http_git", "https_tail", "http_tail",
     "scp", "scp_git", "ssh", "ssh_git"}

\* the URL of form f for owner o and repository r
FormUrl(f, o, r) ==
    CASE f = "https"      -> "https://github.com/" \o o \o "/" \o r
      [] f = "http"       -> "http://github.com/" \o o \o "/" \o r
      [] f = "https_git"  -> "https://github.com/" \o o \o "/" \o r \o ".git"
      [] f = "http_git"   -> "http://github.com/" \o o \o "/" \o r \o ".git"
      [] f = "https_tail" -> "https://github.com/" \o o \o "/" \o r
                                \o "/tree/main"
      [] f = "http_tail"  -> "http://github.com/" \o o \o "/" \o r
                                \o "/tree/main"
      [] f = "scp"        -> "git@github.com:" \o o \o "/" \o r
      [] f = "scp_git"    -> "git@github.com:" \o o \o "/" \o r \o ".git"
      [] f = "ssh"        -> "ssh://git@github.com/" \o o \o "/" \o r
      [] f = "ssh_git"    -> "ssh://git@github.com/" \o o \o "/" \o r \o ".git"

AcceptedProbes ==
    { [class |-> f, owner |-> o, repo |-> r, url |-> FormUrl(f, o, r)] :
        f \in AcceptedForms, o \in OwnerNames, r \in RepoNames }

OtherHosts ==
    {"gitlab.com", "githubxcom", "github.com.evil.org", "www.github.com",
     "github.co", "example.org/github.com"}

\* URLs of the accepted shapes on a host that is not github.com
OtherHostUrls(o, r) ==
    UNION { { "https://" \o h \o "/" \o o \o "/" \o r,
              "http://" \o h \o "/" \o o \o "/" \o r \o ".git",
              "https://" \o h \o "/" \o o \o "/" \o r \o "/tree/main",
              "git@" \o h \o ":" \o o \o "/" \o r,
              "ssh://git@" \o h \o "/" \o o \o "/" \o r \o ".git" } :
            h \in OtherHosts }

\* a bare owner/repo pair
BareUrls(o, r) == { o \o "/" \o r, o \o "/" \o r \o ".git" }

\* github.com URLs without an owner/repo path segment
NoPathUrls(o, r) ==
    { "https://github.com", "https://github.com/", "http://github.com/.git",
      "https://github.com/" \o o, "https://github.com/" \o o \o "/",
      "https://github.com/" \o o \o ".git", "https://github.com//" \o r,
      "git@github.com:", "git@github.com:" \o o,
      "git@github.com:" \o o \o "/", "git@github.com:/" \o r,
      "ssh://git@github.com/", "ssh://git@github.com/" \o o,
      "ssh://git@github.com/" \o o \o "/.git" }

\* text that is no URL of the accepted shapes
TextUrls(o, r) ==
    { "not a url", "", " ", "github.com/" \o o \o "/" \o r,
      "ftp://github.com/" \o o \o "/" \o r,
      "see https://github.com/" \o o \o "/" \o r,
      "https//github.com/" \o o \o "/" \o r,
      "git@github.com/" \o o \o "/" \o r,
      "ssh://github.com/" \o o \o "/" \o r }

RejectedClasses == {"other_host", "bare", "no_path", "text"}

RejectedUrls(c, o, r) ==
    CASE c = "other_host" -> OtherHostUrls(o, r)
      [] c = "bare"       -> BareUrls(o, r)
      [] c = "no_path"    -> NoPathUrls(o, r)
      [] c = "text"       -> TextUrls(o, r)

RejectedProbes ==
    UNION { { [class |-> c, owner |-> o, repo |-> r, url |-> u] :
                u \in RejectedUrls(c, o, r) } :
            c \in RejectedClasses, o \in OwnerNames \cup {"user"},
            r \in {"repo", "a.git"} }

IdleArgs ==
    [url |-> "", branch |-> None, dest |-> None, force |-> FALSE,
     author_name |-> None, author_email |-> None, remote |-> None]

InitParse ==
    /\ probe \in AcceptedProbes \cup RejectedProbes
    /\ result = NoResult
    /\ variant = "none"
    /\ args = IdleArgs
    /\ pc = "probe"
    /\ owner = ""
    /\ repo = ""
    /\ ref = None
    /\ zip_path = None
    /\ dest = ""
    /\ dest_fs = Absent
    /\ dest_fs0 = Absent
    /\ calls = <<>>
    /\ git_cmds = <<>>
    /\ git_probe = "unset"
    /\ temp_live = {}
    /\ temp_made = {}
    /\ git_warnings = {}
    /\ outcome = Running

Parsed(which, r) ==
    [parser |-> which, exc |-> r.exc, owner |-> r.owner, repo |-> r.repo]

ApplyParser(which, r) ==
    /\ pc = "probe"
    /\ result = NoResult
    /\ result' = Parsed(which, r)
    /\ UNCHANGED <<variant, args, pc, owner, repo, ref, zip_path, dest,
                   dest_fs, dest_fs0, calls, git_cmds, git_probe, temp_live,
                   temp_made, outcome, probe,
                   git_warnings>>

\* src/src/github_url_parser.py
ParseStandalone == ApplyParser("github_url_parser", parse_github_url(probe.url))

\* src/src/main.py
ParseMainCopy == ApplyParser("main", parse_github_url_main(probe.url))

\* src/src/gitripper.py
ParseSrcCopy == ApplyParser("src_gitripper", parse_github_url_src(probe.url))

\* src/gitripper.py
ParseRootCopy == ApplyParser("root_gitripper", parse_github_url_root(probe.url))

NextParse ==
    \/ ParseStandalone
    \/ ParseMainCopy
    \/ ParseSrcCopy
    \/ ParseRootCopy

SpecParse == InitParse /\ [][NextParse]_vars

\* the copies of parse_github_url that raise ValueError on failure
\* (src/src/github_url_parser.py and src/src/main.py)
RaisingParsers == {"github_url_parser", "main"}

\* a repository name that ends neither in ".git" nor in whitespace
PlainRepoName(r) ==
    /\ ~EndsWith(r, ".git")
    /\ Ch(r, Len(r)) \notin Whitespace

\* C2 (amended): for every owner and repo (non-empty, no "/", the repo
\* ending neither in ".git" nor in whitespace) parse_github_url returns
\* exactly (owner, repo) for every accepted form of the repository, so all
\* forms yield the same pair.
C2_AcceptedFormsYieldPair ==
    (result.parser \in RaisingParsers /\ probe.class \in AcceptedForms
        /\ PlainRepoName(probe.repo))
    => /\ result.exc = "none"
       /\ result.owner = probe.owner
       /\ result.repo = probe.repo

C2_Witness ==
    /\ result.parser = "github_url_parser"
    /\ probe.class = "scp_git"
    /\ PlainRepoName(probe.repo)
    /\ result.exc = "none" /\ result.repo = probe.repo

\* C2 as stated: the same for every non-empty owner and repo without "/".
C2_AnyNameYieldsPair ==
    (result.parser \in RaisingParsers /\ probe.class \in AcceptedForms)
    => /\ result.exc = "none"
       /\ result.owner = probe.owner
       /\ result.repo = probe.repo

\* C3: parse_github_url raises ValueError and returns no pair for a URL on
\* another host, a bare owner/repo, a github.com URL without an owner/repo
\* path segment, and arbitrary text.
C3_UnrecognisedRaises ==
    (result.parser \in RaisingParsers /\ probe.class \in RejectedClasses)
    => /\ result.exc = "ValueError"
       /\ result.owner = "" /\ result.repo = ""

C3_Witness ==
    /\ result.parser = "main"
    /\ probe.class = "other_host"
    /\ probe.url = "https://gitlab.com/user/repo"
    /\ result.exc = "ValueError"

-----------------------------------------------------------------------------
(* get_default_branch and download_zip on their own: each copy of the two
   functions called once on an owner, a repository, a ref and a reply of
   the server. *)

\* the driver's variables while a function is run on its own
DriverAtRest ==
    /\ variant = "none"
    /\ args = IdleArgs
    /\ pc = "probe"
    /\ owner = ""
    /\ repo = ""
    /\ ref = None
    /\ zip_path = None
    /\ dest = ""
    /\ dest_fs = Absent
    /\ dest_fs0 = Absent
    /\ calls = <<>>
    /\ git_cmds = <<>>
    /\ git_probe = "unset"
    /\ temp_live = {}
    /\ temp_made = {}
    /\ git_warnings = {}
    /\ outcome = Running

driver_vars ==
    <<variant, args, pc, owner, repo, ref, zip_path, dest_fs, dest_fs0,
      calls, outcome, dest, git_cmds, git_probe, temp_live, temp_made,
      git_warnings>>

ApiOwners == {None, Some(""), Some("user")}

ApiRefs == {"main", "feature/x"}

ApiBodies == {"", "rate limit exceeded"}

HTTP_FORBIDDEN == 403

WithText(rep, t) == [rep EXCEPT !.text = t]

WithChunks(rep, c) == [rep EXCEPT !.chunks = c]

ApiMetadataReplies ==
    { WithText(rep, t) : rep \in MetadataReplies \cup {Reply(HTTP_FORBIDDEN, None)},
                         t \in ApiBodies }

ApiChunks == { <<>>, <<"PK">>, <<"PK", "", "zip">> }

ApiArchiveReplies ==
    { WithText(rep, t) : rep \in (ArchiveReplies \ {Reply(HTTP_OK, None)})
                                 \cup {Reply(HTTP_FORBIDDEN, None)},
                         t \in ApiBodies }
    \cup { WithChunks(Reply(HTTP_OK, None), c) : c \in ApiChunks }

NoApiResult ==
    [fn |-> "none", copy |-> "none", exc |-> "none", value |-> "",
     requests |-> <<>>, files |-> {}, msg |-> NoMsg]

InitApi ==
    /\ probe \in [fn : {"get_default_branch"}, owner : ApiOwners,
                  repo : {"repo"}, ref : {"main"},
                  reply : ApiMetadataReplies]
             \cup [fn : {"download_zip"}, owner : {Some("user")},
                   repo : {"repo"}, ref : ApiRefs,
                   reply : ApiArchiveReplies]
    /\ result = NoApiResult
    /\ DriverAtRest

CallGetDefaultBranch ==
    /\ probe.fn = "get_default_branch"
    /\ result = NoApiResult
    /\ \E v \in GetterCopies :
         LET r == get_default_branch(v, probe.owner, probe.repo, probe.reply)
         IN result' = [fn |-> "get_default_branch", copy |-> v,
                       exc |-> r.exc, value |-> r.value,
                       requests |-> r.requests, files |-> {},
                       msg |-> r.msg]
    /\ UNCHANGED <<probe, driver_vars>>

CallDownloadZip ==
    /\ probe.fn = "download_zip"
    /\ result = NoApiResult
    /\ LET r == download_zip(probe.owner[1], probe.repo, probe.ref, TMP,
                             probe.reply)
       IN result' = [fn |-> "download_zip", copy |-> "zip_utils",
                     exc |-> r.exc, value |-> r.path,
                     requests |-> r.requests, files |-> r.files,
                     msg |-> r.msg]
    /\ UNCHANGED <<probe, driver_vars>>

NextApi == CallGetDefaultBranch \/ CallDownloadZip

SpecApi == InitApi /\ [][NextApi]_vars

\* the copies of get_default_branch that look at the owner first
CheckedGetters == GetterCopies \ {"root_gitripper"}

\* C17: get_default_branch returns a ref only on status 200, the
\* default_branch field or "main" when the field is absent; 404 raises
\* FileNotFoundError; any other status raises RuntimeError carrying the
\* status and the body; an owner of None raises ValueError without a
\* request; a call makes at most one request.
C17_DefaultBranchByStatus ==
    (result.fn = "get_default_branch" /\ result.copy \in CheckedGetters)
    => /\ Len(result.requests) <= 1
       /\ probe.owner = None
          => result.exc = "ValueError" /\ result.requests = <<>>
       /\ result.exc = "none"
          => /\ ~probe.reply.net /\ probe.reply.status = HTTP_OK
             /\ result.value = IF probe.reply.branch = None THEN "main"
                               ELSE probe.reply.branch[1]
       /\ (probe.owner # None /\ ~probe.reply.net)
          => /\ probe.reply.status = HTTP_OK => result.exc = "none"
             /\ probe.reply.status = HTTP_NOT_FOUND
                => result.exc = "FileNotFoundError"
             /\ probe.reply.status \notin {HTTP_OK, HTTP_NOT_FOUND}
                => /\ result.exc = "RuntimeError"
                   /\ result.msg.status = probe.reply.status
                   /\ result.msg.text = probe.reply.text

C17_Witness ==
    /\ result.fn = "get_default_branch"
    /\ result.copy = "default_branch_getter"
    /\ probe.owner = Some("user")
    /\ probe.reply.status = HTTP_NOT_FOUND
    /\ result.exc = "FileNotFoundError"
    /\ Len(result.requests) = 1

\* C18: download_zip returns a path only on status 200; 301 and 302 raise
\* RuntimeError 'Unexpected redirect'; 404 raises FileNotFoundError; any
\* other status raises RuntimeError with the status and the body; in every
\* case but 200 no file is created in the temporary directory; a call
\* makes exactly one request.
C18_DownloadByStatus ==
    result.fn = "download_zip"
    => /\ Len(result.requests) = 1
       /\ result.exc = "none"
          => /\ ~probe.reply.net /\ probe.reply.status = HTTP_OK
             /\ result.value # ""
       /\ (probe.reply.net \/ probe.reply.status # HTTP_OK)
          => result.exc # "none" /\ result.files = {}
       /\ ~probe.reply.net
          => /\ probe.reply.status \in {HTTP_MOVED, HTTP_FOUND}
                => /\ result.exc = "RuntimeError"
                   /\ result.msg.what = "Unexpected redirect"
             /\ probe.reply.status = HTTP_NOT_FOUND
                => result.exc = "FileNotFoundError"
             /\ probe.reply.status \notin {HTTP_OK, HTTP_MOVED, HTTP_FOUND,
                                           HTTP_NOT_FOUND}
                => /\ result.exc = "RuntimeError"
                   /\ result.msg.status = probe.reply.status
                   /\ result.msg.text = probe.reply.text

C18_Witness ==
    /\ result.fn = "download_zip"
    /\ probe.reply.status = HTTP_FOUND
    /\ result.exc = "RuntimeError"
    /\ result.msg.what = "Unexpected redirect"
    /\ result.files = {}
    /\ Len(result.requests) = 1

-----------------------------------------------------------------------------
(* extract_zip and remove_embedded_git on their own: each called once on
   an archive and a destination, or on a tree. *)

\* archives: W is the wrapper directory
TreeArchives ==
    { <<>>,
      << DirNode(<<"W">>), FileNode(<<"W", "a.txt">>, "A"),
         DirNode(<<"W", "sub">>), FileNode(<<"W", "sub", "b.txt">>, "B") >>,
      << FileNode(<<"W", "a.txt">>, "A") >>,
      << DirNode(<<"W">>) >>,
      << FileNode(<<"W", "a.txt">>, "A"), DirNode(<<"W", "W">>),
         FileNode(<<"W", "W", "c.txt">>, "C") >>,
      << FileNode(<<"a.txt">>, "A"), FileNode(<<"b.txt">>, "B") >>,
      << FileNode(<<"W", "a.txt">>, "A"), FileNode(<<"top.txt">>, "T") >>,
      << FileNode(<<"W", "a.txt">>, "A"), FileNode(<<"V", "b.txt">>, "B") >>,
      << FileNode(<<"W", "a.txt">>, "A"), FileNode(<<"W", "a.txt">>, "A2") >>,
      << DirNode(<<"W", ".git">>), FileNode(<<"W", ".git", "config">>, "G"),
         FileNode(<<"W", "a.txt">>, "A") >> }

TreeZips == { Zip(TRUE, e) : e \in TreeArchives } \cup { Zip(FALSE, <<>>) }

\* destinations of extract_zip
TreePlaces ==
    { Place(TRUE, "absent", {}), Place(FALSE, "absent", {}),
      Place(TRUE, "file", {}), Place(TRUE, "dir", {}),
      Place(TRUE, "dir", { FileNode(<<"old.txt">>, "O") }),
      Place(TRUE, "dir", { FileNode(<<"a.txt">>, "OLD"), DirNode(<<"sub">>),
                           FileNode(<<"sub", "old.txt">>, "O") }),
      Place(TRUE, "dir", { FileNode(<<"a.txt">>, "OLD"), DirNode(<<"sub">>),
                           FileNode(<<"sub", "old.txt">>, "O"),
                           FileNode(<<"keep.txt">>, "K"),
                           DirNode(<<"docs">>),
                           FileNode(<<"docs", "d.md">>, "D") }),
      Place(TRUE, "dir", { DirNode(<<"a.txt">>),
                           FileNode(<<"a.txt", "x">>, "X") }) }

\* what the trees given to remove_embedded_git are made of
GitTreeNodes ==
    { DirNode(<<".git">>), FileNode(<<".git", "config">>, "G"),
      DirNode(<<".git", ".git">>),
      FileNode(<<"a.txt">>, "A"),
      DirNode(<<"sub">>), FileNode(<<"sub", ".git">>, "gitdir: x"),
      DirNode(<<"sub", "lib">>), DirNode(<<"sub", "lib", ".git">>),
      FileNode(<<"sub", "lib", ".git", "HEAD">>, "H"),
      FileNode(<<"sub", "lib", "b.txt">>, "B"),
      DirNode(<<".github">>), FileNode(<<".github", "ci.yml">>, "Y") }

GitTrees == { t \in SUBSET GitTreeNodes : IsTree(t) }

NoTreeResult ==
    [op |-> "none", exc |-> "none", msg |-> "",
     place |-> Place(TRUE, "absent", {}), scratch |-> FALSE,
     failure |-> NoFailure, failing |-> {}, warnings |-> {}]

InitTree ==
    /\ probe \in [op : {"extract_zip"}, zip : TreeZips, place : TreePlaces]
             \cup [op : {"remove_embedded_git"}, zip : {Zip(TRUE, <<>>)},
                   place : { Place(TRUE, "dir", t) : t \in GitTrees }]
    /\ result = NoTreeResult
    /\ DriverAtRest

CallExtractZip ==
    /\ probe.op = "extract_zip"
    /\ result = NoTreeResult
    /\ \E failure \in FailuresOf(probe.place, probe.zip) :
         LET r == extract_zip_tree(probe.zip, probe.place, failure) IN
         result' = [op |-> "extract_zip", exc |-> r.exc, msg |-> r.msg,
                    place |-> r.place, scratch |-> r.scratch,
                    failure |-> failure, failing |-> {}, warnings |-> {}]
    /\ UNCHANGED <<probe, driver_vars>>

CallRemoveEmbeddedGit ==
    /\ probe.op = "remove_embedded_git"
    /\ result = NoTreeResult
    /\ \E failing \in SUBSET GitDirsOf(probe.place.nodes) :
         LET r == remove_embedded_git(probe.place.nodes, failing) IN
         result' = [op |-> "remove_embedded_git", exc |-> "none",
                    msg |-> "", place |-> Place(TRUE, "dir", r.tree),
                    scratch |-> FALSE, failure |-> NoFailure,
                    failing |-> failing, warnings |-> r.warnings]
    /\ UNCHANGED <<probe, driver_vars>>

NextTree == CallExtractZip \/ CallRemoveEmbeddedGit

SpecTree == InitTree /\ [][NextTree]_vars

\* every entry of the archive lies under one top-level directory
UnderOneWrapper(entries) ==
    /\ entries # <<>>
    /\ \A i \in DOMAIN entries :
         /\ entries[i].path[1] = entries[1].path[1]
         /\ Len(entries[i].path) > 1 \/ entries[i].kind = "dir"

\* the entry is the last one of its name in the archive
LastOfName(entries, i) ==
    \A j \in DOMAIN entries : j > i => entries[j].path # entries[i].path

\* C13: for an archive whose entries all lie under one wrapper directory,
\* extract_zip into an absent or empty destination leaves the destination
\* tree equal to the subtree below the wrapper, same relative paths and
\* same bytes; the destination and its parents are created and the
\* wrapper itself is not installed.
C13_WrapperStripped ==
    ( /\ result.op = "extract_zip"
      /\ probe.zip.readable
      /\ UnderOneWrapper(probe.zip.entries)
      /\ result.failure = NoFailure
      /\ probe.place.kind = "absent"
         \/ (probe.place.kind = "dir" /\ probe.place.nodes = {}) )
    => LET entries == probe.zip.entries IN
       /\ result.exc = "none"
       /\ result.place.kind = "dir" /\ result.place.parent
       /\ \A i \in DOMAIN entries :
            (Len(entries[i].path) > 1 /\ LastOfName(entries, i))
            => Node(Tail(entries[i].path), entries[i].kind,
                    entries[i].data) \in result.place.nodes
       /\ \A n \in result.place.nodes :
            \E i \in DOMAIN entries :
              \/ /\ Tail(entries[i].path) = n.path
                 /\ LastOfName(entries, i)
                 /\ entries[i].kind = n.kind /\ entries[i].data = n.data
              \/ /\ n.kind = "dir"
                 /\ IsPrefix(n.path, Tail(entries[i].path))
                 /\ Len(n.path) < Len(entries[i].path) - 1

C13_Witness ==
    /\ result.op = "extract_zip"
    /\ probe.place = Place(FALSE, "absent", {})
    /\ UnderOneWrapper(probe.zip.entries)
    /\ result.exc = "none"
    /\ result.place.parent /\ result.place.kind = "dir"
    /\ FileNode(<<"a.txt">>, "A") \in result.place.nodes
    /\ FileNode(<<"W", "c.txt">>, "C") \in result.place.nodes
    /\ FileNode(<<"W", "a.txt">>, "A") \notin result.place.nodes

\* C14: extract_zip on an archive with zero entries raises RuntimeError
\* 'Zip archive is empty.' and leaves the destination exactly as it was:
\* not created when absent, unchanged when present.
C14_EmptyArchiveRaises ==
    ( /\ result.op = "extract_zip"
      /\ probe.zip.readable
      /\ probe.zip.entries = <<>> )
    => /\ result.exc = "RuntimeError"
       /\ result.msg = "Zip archive is empty."
       /\ result.place = probe.place

C14_Witness ==
    /\ result.op = "extract_zip"
    /\ probe.zip = Zip(TRUE, <<>>)
    /\ probe.place = Place(FALSE, "absent", {})
    /\ result.exc = "RuntimeError"
    /\ result.place.kind = "absent" /\ ~result.place.parent

\* the entry is a directory named .git or lies below one
InGitDir(n) ==
    \E k \in 1..Len(n.path) :
        /\ n.path[k] = ".git"
        /\ k < Len(n.path) \/ n.kind = "dir"

\* C15: when every deletion succeeds, the tree after remove_embedded_git
\* is the tree before minus every directory named exactly '.git', at any
\* depth, and its descendants; everything else is untouched.
C15_GitDirsRemoved ==
    (result.op = "remove_embedded_git" /\ result.warnings = {})
    => result.place.nodes = { n \in probe.place.nodes : ~InGitDir(n) }

C15_Witness ==
    /\ result.op = "remove_embedded_git"
    /\ result.warnings = {}
    /\ DirNode(<<".git">>) \in probe.place.nodes
    /\ FileNode(<<"sub", "lib", ".git", "HEAD">>, "H") \in probe.place.nodes
    /\ FileNode(<<"sub", ".git">>, "gitdir: x") \in result.place.nodes
    /\ FileNode(<<"sub", "lib", "b.txt">>, "B") \in result.place.nodes
    /\ GitDirsOf(result.place.nodes) = {}

\* C21: after a successful extract_zip every file entry of the archive is
\* in the destination: below the wrapper's name stripped when the archive's
\* top level is exactly one directory entry, at its own path in every
\* other layout, so no file of the archive is dropped.
C21_NoFileDropped ==
    (result.op = "extract_zip" /\ result.exc = "none")
    => LET entries == probe.zip.entries IN
       \A i \in DOMAIN entries :
         (entries[i].kind = "file" /\ LastOfName(entries, i))
         => Node(IF UnderOneWrapper(entries) THEN Tail(entries[i].path)
                 ELSE entries[i].path,
                 "file", entries[i].data) \in result.place.nodes

\* C22 as stated: if extract_zip fails at any point, while unpacking into
\* the scratch location or while moving any of the top-level entries, a
\* destination that existed before the call has exactly its prior contents
\* afterwards.
C22_FailureKeepsDest ==
    ( /\ result.op = "extract_zip"
      /\ result.exc # "none"
      /\ probe.place.kind # "absent" )
    => result.place = probe.place

\* C22, amended: if extract_zip fails before its loop over the top-level
\* entries begins (the archive cannot be read, has no entries, unpacking
\* into the scratch location fails, the destination is a file), a
\* destination that existed before the call has exactly its prior contents
\* afterwards; once the loop runs, the destination entries whose names the
\* archive does not install are as before.
C22_FailureBeforeInstallKeepsDest ==
    ( /\ result.op = "extract_zip"
      /\ result.exc # "none"
      /\ probe.place.kind # "absent" )
    => /\ result.failure.at \notin {"move", "remove"}
          => result.place = probe.place
       /\ result.failure.at \in {"move", "remove"}
          => LET names ==
                   iterdir(source_dir(extractall(probe.zip.entries)))
             IN { n \in result.place.nodes : n.path[1] \notin names }
                = { n \in probe.place.nodes : n.path[1] \notin names }

C22_Witness ==
    /\ result.op = "extract_zip"
    /\ result.failure.at = "extractall"
    /\ result.exc = "OSError"
    /\ result.scratch
    /\ FileNode(<<"sub", "old.txt">>, "O") \in probe.place.nodes
    /\ result.place = probe.place

\* C23: when extract_zip installs into a destination that already has
\* entries, each installed top-level name ends up equal to the archive's
\* entry alone, nothing of an old directory or file of that name surviving
\* or being merged, and every destination entry whose top-level name is
\* not installed is left unchanged.
C23_LastWinsInstall ==
    ( /\ result.op = "extract_zip"
      /\ result.exc = "none"
      /\ probe.place.kind = "dir" /\ probe.place.nodes # {} )
    => LET source == source_dir(extractall(probe.zip.entries))
           names == iterdir(source)
       IN /\ { n \in result.place.nodes : n.path[1] \in names } = source
          /\ { n \in result.place.nodes : n.path[1] \notin names }
             = { n \in probe.place.nodes : n.path[1] \notin names }

C23_Witness ==
    /\ result.op = "extract_zip"
    /\ result.exc = "none"
    /\ FileNode(<<"a.txt">>, "OLD") \in probe.place.nodes
    /\ FileNode(<<"sub", "old.txt">>, "O") \in probe.place.nodes
    /\ FileNode(<<"docs", "d.md">>, "D") \in probe.place.nodes
    /\ FileNode(<<"a.txt">>, "A") \in result.place.nodes
    /\ FileNode(<<"a.txt">>, "OLD") \notin result.place.nodes
    /\ FileNode(<<"sub", "b.txt">>, "B") \in result.place.nodes
    /\ FileNode(<<"sub", "old.txt">>, "O") \notin result.place.nodes
    /\ FileNode(<<"docs", "d.md">>, "D") \in result.place.nodes
    /\ FileNode(<<"keep.txt">>, "K") \in result.place.nodes

\* C24: for every repo name and every ref, refs with a '/' such as
\* 'feature/x' included, download_zip on status 200 succeeds, writes the
\* body, its non-empty chunks in order, to the file <repo>-<ref>.zip inside
\* the temporary directory it was given, and returns that file's path.
C24_DownloadWritesBody ==
    ( /\ result.fn = "download_zip"
      /\ ~probe.reply.net /\ probe.reply.status = HTTP_OK )
    => /\ result.exc = "none"
       /\ result.value
          = TMP \o "/" \o probe.repo \o "-" \o probe.ref \o ".zip"
       /\ result.files = { [path |-> result.value,
                            data |-> Written(probe.reply.chunks)] }

-----------------------------------------------------------------------------
(* initialize_repo on its own: called once on an author name, an author
   email and a remote, any one of its git commands failing or none. *)

GitIdentities ==
    [author_name : {None, Some(""), Some("Test")},
     author_email : {None, Some(""), Some("test@example.com")},
     remote : {None, Some(""), Some("https://example.com/r.git")}]

NoGitResult ==
    [fn |-> "none", exc |-> "none", cmds |-> <<>>, failAt |-> 0,
     failure |-> "none"]

InitGit ==
    /\ probe \in GitIdentities
    /\ result = NoGitResult
    /\ DriverAtRest

CallInitializeRepo ==
    /\ result = NoGitResult
    /\ \E failAt \in 0..Len(GitPlan(probe.author_name, probe.author_email,
                                    probe.remote)),
          failure \in GitFailures :
          LET r == initialize_repo(probe.author_name, probe.author_email,
                                   probe.remote, failAt, failure)
          IN result' = [fn |-> "initialize_repo", exc |-> r.exc,
                        cmds |-> r.cmds, failAt |-> failAt,
                        failure |-> failure]
    /\ UNCHANGED <<probe, driver_vars>>

NextGit == CallInitializeRepo

SpecGit == InitGit /\ [][NextGit]_vars

\* C25: in initialize_repo, when a git step fails (init, config user.name,
\* config user.email, add, commit or remote add), none of the later steps
\* is executed, the failure propagates to the caller, and the steps already
\* performed are not undone: the commands run are the steps up to the
\* failing one and nothing else.
C25_FailureAbortsLaterSteps ==
    (result.fn = "initialize_repo" /\ result.failAt # 0)
    => LET plan == GitPlan(probe.author_name, probe.author_email,
                           probe.remote)
       IN /\ result.exc = result.failure
          /\ Len(result.cmds) = result.failAt
          /\ \A i \in 1..result.failAt : result.cmds[i] = plan[i]
          /\ \A j \in (result.failAt + 1)..Len(plan) :
               \A i \in 1..Len(result.cmds) : result.cmds[i] # plan[j]

C25_Witness ==
    /\ result.fn = "initialize_repo"
    /\ probe.author_name = Some("Test")
    /\ probe.remote = Some("https://example.com/r.git")
    /\ result.exc = "CalledProcessError"
    /\ result.cmds[Len(result.cmds)] = <<"add", ".">>
    /\ result.cmds[1] = <<"init">>

====
